---- MODULE Spec2Model ----
(***************************************************************************)
(* Scheduling and multi-platform publishing pipeline of the blog           *)
(* automation agent: BlogScheduler (blog_scheduler.py), PublisherManager   *)
(* (content_publisher.py) and the parts of BlogGenerator                   *)
(* (blog_generator.py) the scheduler calls.                                *)
(*                                                                         *)
(* Two execution contexts run job bodies: the scheduler loop thread        *)
(* ("loop": daily jobs, weekly series, content curation) and the caller    *)
(* of the manual triggers ("manual").  Spec lets one job run at a time,    *)
(* ConcSpec lets the two contexts interleave statement by statement.       *)
(***************************************************************************)
EXTENDS Integers, Sequences, FiniteSets, TLC

\* ---------------------------------------------------------------- bounds
\* Calls of the content generator (job-body invocations that reach the
\* generation step) over one behaviour.
MaxRuns == 3
\* Length of an explicitly given target platform list.
MaxTargets == 2
\* Loop threads start() creates over one behaviour.
MaxLoops == 2
\* Job objects registered with the schedule package over one behaviour.
MaxJobs == 2
\* Entries of blog_schedules.
MaxSchedules == 3
\* Publisher instances add_*_publisher calls construct over one behaviour.
MaxInstances == 3

\* ------------------------------------------------------------- constants
\* settings.DATABASE_TYPE, at its default.
DATABASE_TYPE == "mongodb"
\* Number of entries of trending_topics in _extract_topics_from_sources.
NumTrendingTopics == 8

Threads == {"loop", "manual"}
\* Names a publisher can be registered under, and one that never is.
Registrable == {"default_wordpress", "nextjs_site"}
Names == Registrable \cup {"custom"}
\* What a registered publisher's publish_post does when called: returns a
\* success dict, returns a failure dict, raises (a subclass; the shipped
\* adapters catch every Exception), or returns None, as
\* NextJSAPIPublisher.publish_post does on a status below 400 other than
\* 201 (raise_for_status() does not raise and the method falls off its end).
Outcomes == {"success", "failure", "raises", "none"}

Min(a, b) == IF a < b THEN a ELSE b
Range(s) == {s[i] : i \in DOMAIN s}
\* Sequences over S of length at most n.
SeqsUpTo(S, n) == UNION {[1..k -> S] : k \in 0..n}
NoDup(s) == \A i, j \in DOMAIN s : i # j => s[i] # s[j]

VARIABLES
    publishers,   \* PublisherManager.publishers: registered names, in insertion order
    stats,        \* BlogScheduler.stats
    stats_doc,    \* the durable copy written by _save_statistics
    blog_posts,   \* the blog_posts collection
    pc,           \* per context: position in the job body
    local,        \* per context: the job's parameters and local variables
    report,       \* per context: the value the last job function returned
    trace,        \* per context: generate / persist / publish events of the job
    pre,          \* per context: stats and collection size when the body began
                  \* (kept only while no other context runs a job)
    reached,      \* job-body invocations that reached the generation step
    incs,         \* per counter: increments performed so far; unsaved: counter
                  \* mutations since the last _save_statistics call
    pub,          \* the last direct _publish_blog call: its arguments and results
    is_running,        \* BlogScheduler.is_running
    scheduler_thread,  \* BlogScheduler.scheduler_thread (0 for None)
    jobs,              \* schedule.jobs: the Job objects registered
    job_objs,          \* per Job object: its function and whether it is due
    loops,             \* per loop thread: where it is in scheduler_loop
    caller,            \* the context calling start, stop and the schedule_*
                       \* methods: its position in stop(), and the call
                       \* that has just returned (until the next step)
    next_run,          \* the last calculate_next_run call: arguments and result
    blog_schedules,    \* blog_automation_app.blog_schedules: the ids, in list order
    api_calls,         \* the last two calls of the schedules API, latest last
    script,            \* the parameters and collaborator responses two runs share
    twin,              \* the effects and report of the first of the two runs
    attempt,           \* the last publish_post call: adapter, remote condition, result
    instances,         \* PublisherManager.publishers: the instance under each name
    reg_call,          \* the last add_*_publisher call
    boot,              \* the last BlogScheduler construction: the store and how it ended
    process,           \* the last restart of the process: the statistics in
                       \* memory before it, the durable copy and what was loaded
    demo_blog_posts,   \* blog_automation_app.demo_blog_posts: the ids, in list order
    post_call,         \* the last call on demo_blog_posts, and the ids deleted so far
    selection          \* the _select_topic calls so far: caller, argument and result

pipeline_vars == <<publishers, stats, stats_doc, blog_posts, pc, local, report,
                   trace, pre, reached, incs, pub>>
sched_vars == <<is_running, scheduler_thread, jobs, job_objs, loops, caller, next_run>>
api_vars == <<blog_schedules, api_calls>>
equiv_vars == <<script, twin>>
adapter_vars == <<attempt>>
reg_vars == <<instances, reg_call>>
load_vars == <<boot>>
restart_vars == <<process>>
record_vars == <<demo_blog_posts, post_call>>
topic_vars == <<selection>>
late_vars == <<restart_vars, record_vars, topic_vars>>
ext_vars == <<api_vars, equiv_vars, adapter_vars, reg_vars, load_vars, late_vars>>
vars == <<pipeline_vars, sched_vars, ext_vars>>

Counters == {"total_generated", "total_published", "failed_generations",
             "failed_publications"}

\* BlogScheduler.__init__: every counter 0, both timestamps None (0).
ZeroStats == [total_generated |-> 0, total_published |-> 0,
              failed_generations |-> 0, failed_publications |-> 0,
              last_generation |-> 0, last_publication |-> 0]

\* {} as a result map.
EmptyDict == [n \in {} |-> [isNone |-> TRUE, success |-> FALSE, error |-> ""]]

NoPlatforms == [given |-> FALSE, list |-> <<>>]
NoPub == [op |-> "none", platforms |-> NoPlatforms,
          pr |-> [called |-> FALSE, success |-> FALSE, error |-> "",
                  successful_platforms |-> 0, total_platforms |-> 0,
                  has_results |-> FALSE],
          results |-> EmptyDict, calls |-> <<>>, target |-> <<>>]
NoPre == [stats |-> ZeroStats, posts |-> 0]
\* publish_result = {'success': False}, as far as the job body reads it.
NoPublishResult == [called |-> FALSE, success |-> FALSE, error |-> ""]
NoJob == [kind |-> "none", publish_immediately |-> FALSE,
          remaining |-> 0, num_posts |-> 0]
NoBlog == [id |-> 0, status |-> "none", post |-> 0]
NoReport == [kind |-> "none", generation_success |-> FALSE,
             publish_success |-> FALSE, series_success |-> FALSE,
             results |-> <<>>]
NoLocal == [job |-> NoJob, blog_data |-> NoBlog, blog_series |-> <<>>,
            publish_result |-> NoPublishResult, tmp |-> 0, i |-> 0,
            series_results |-> <<>>, published_count |-> 0]

\* ------------------------------------------------- PublisherManager
\* The dict one publish_post call returns, by outcome.
AdapterResult(o) ==
    CASE o = "success" -> [isNone |-> FALSE, success |-> TRUE, error |-> ""]
      [] o = "failure" -> [isNone |-> FALSE, success |-> FALSE, error |-> "adapter error"]
      [] OTHER         -> [isNone |-> TRUE, success |-> FALSE, error |-> ""]

\* results[name] = value, as a dict assignment.
DictPut(d, name, value) ==
    [n \in (DOMAIN d) \cup {name} |-> IF n = name THEN value ELSE d[n]]

\* The for loop of publish_to_all from position i on: acc.results is the
\* result map so far, acc.calls the publish_post calls made so far.
RECURSIVE PublishLoop(_, _, _, _, _)
PublishLoop(target, i, regs, out, acc) ==
    IF i > Len(target) THEN acc
    ELSE LET name == target[i]
             next ==
               IF name \in Range(regs)
               THEN IF out[i] = "raises"
                    THEN [results |-> DictPut(acc.results, name,
                                       [isNone |-> FALSE, success |-> FALSE,
                                        error |-> "exception"]),
                          calls |-> Append(acc.calls, name)]
                    ELSE [results |-> DictPut(acc.results, name, AdapterResult(out[i])),
                          calls |-> Append(acc.calls, name)]
               ELSE [results |-> DictPut(acc.results, name,
                                  [isNone |-> FALSE, success |-> FALSE,
                                   error |-> "Publisher not configured"]),
                     calls |-> acc.calls]
         IN PublishLoop(target, i + 1, regs, out, next)

\* platforms if platforms is not None else list(self.publishers.keys())
ResolveTargetsIfNone(platforms, regs) ==
    IF platforms.given THEN platforms.list ELSE regs

\* platforms or list(self.publishers.keys())
ResolveTargets(platforms, regs) ==
    IF platforms.given /\ platforms.list # <<>> THEN platforms.list ELSE regs

\* publish_to_all without the try/except around one platform: the first
\* raising adapter ends the loop.
RECURSIVE PublishLoopAbortOnRaise(_, _, _, _, _)
PublishLoopAbortOnRaise(target, i, regs, out, acc) ==
    IF i > Len(target) THEN acc
    ELSE IF target[i] \in Range(regs) /\ out[i] = "raises"
         THEN [results |-> acc.results, calls |-> Append(acc.calls, target[i])]
         ELSE PublishLoopAbortOnRaise(target, i + 1, regs, out,
                  PublishLoop(SubSeq(target, 1, i), i, regs, out, acc))

PublishToAllAbortOnRaise(platforms, regs, out) ==
    PublishLoopAbortOnRaise(ResolveTargets(platforms, regs), 1, regs, out,
                            [results |-> EmptyDict, calls |-> <<>>])

\* publish_to_all looking every target name up without the membership
\* test: an unregistered name gets no entry of its own.
PublishToAllSkipUnknown(platforms, regs, out) ==
    LET r == PublishLoop(ResolveTargets(platforms, regs), 1, regs, out,
                         [results |-> EmptyDict, calls |-> <<>>])
    IN [results |-> [n \in (DOMAIN r.results) \cap Range(regs) |-> r.results[n]],
        calls |-> r.calls]

\* PublisherManager.publish_to_all: the result map and the adapter calls made.
PublishToAll(platforms, regs, out) ==
    PublishLoop(ResolveTargets(platforms, regs), 1, regs, out,
                [results |-> EmptyDict, calls |-> <<>>])

\* sum(1 for result in results.values() if result.get('success', False))
SuccessfulPublications(results) ==
    Cardinality({n \in DOMAIN results : results[n].success})

\* BlogScheduler._publish_blog: the returned dict (pr), with the result map
\* and calls of the publish_to_all call it made.
PublishBlog(platforms, regs, out) ==
    IF regs = <<>>
    THEN [pr |-> [called |-> TRUE, success |-> FALSE,
                  error |-> "No publishers configured",
                  successful_platforms |-> 0, total_platforms |-> 0,
                  has_results |-> FALSE],
          results |-> EmptyDict, calls |-> <<>>, target |-> <<>>]
    ELSE LET target == ResolveTargets(platforms, regs)
             r == PublishToAll([given |-> TRUE, list |-> target], regs, out)
         IN IF \E n \in DOMAIN r.results : r.results[n].isNone
            THEN \* None.get(...) raises AttributeError, caught at line 514
                 [pr |-> [called |-> TRUE, success |-> FALSE,
                          error |-> "exception",
                          successful_platforms |-> 0, total_platforms |-> 0,
                          has_results |-> FALSE],
                  results |-> r.results, calls |-> r.calls, target |-> target]
            ELSE [pr |-> [called |-> TRUE,
                          success |-> SuccessfulPublications(r.results) > 0,
                          error |-> "",
                          successful_platforms |-> SuccessfulPublications(r.results),
                          total_platforms |-> Len(target),
                          has_results |-> TRUE],
                  results |-> r.results, calls |-> r.calls, target |-> target]

\* ------------------------------------------------------ BlogScheduler
\* The platforms argument of a job: None, or a list of names.
PlatformArgs ==
    {NoPlatforms} \cup {[given |-> TRUE, list |-> l] : l \in SeqsUpTo(Names, MaxTargets)}

\* datetime.now().isoformat(): the model keeps of a timestamp only that
\* it is set (None is 0).
Now == 1

\* _save_statistics: the durable copy afterwards; a failing write is logged
\* and leaves the copy as it was.
SaveStatistics(s, ok) == IF ok THEN s ELSE stats_doc

\* Whether a _save_statistics call can fail.  ConcSpec explores the
\* interleavings of the two contexts with a reachable store.
SaveOutcomes(serial) == IF serial THEN BOOLEAN ELSE {TRUE}

Event(e, post, id) == [ev |-> e, post |-> post, id |-> id]

\* Generator calls the jobs in progress have still to make.
Outstanding(t) ==
    CASE local[t].job.kind \in {"weekly_series", "manual_series"} ->
            IF pc[t] = "s_generate"
            THEN local[t].job.num_posts - Len(local[t].blog_series) ELSE 0
      [] local[t].job.kind = "none" -> 0
      [] OTHER -> IF pc[t] = "generate"
                  THEN local[t].job.remaining ELSE local[t].job.remaining - 1

\* Generator calls that may still be started within MaxRuns.
Budget == MaxRuns - reached - Outstanding("loop") - Outstanding("manual")

OthersIdle(t) == \A u \in Threads \ {t} : pc[u] = "idle"

\* Entry of _generate_and_publish_blog with the given parameters.
BeginBody(t, job, serial) ==
    /\ pc' = [pc EXCEPT ![t] = "generate"]
    /\ local' = [local EXCEPT ![t] = [NoLocal EXCEPT !.job = job]]
    /\ trace' = [trace EXCEPT ![t] = <<>>]
    /\ pre' = [pre EXCEPT ![t] = IF serial
                                  THEN [stats |-> stats, posts |-> Len(blog_posts)]
                                  ELSE NoPre]
    /\ report' = [report EXCEPT ![t] = NoReport]

\* daily_blog_job, run by the scheduler loop.
DailyBlogJob(t, serial) ==
    /\ t = "loop"
    /\ pc[t] = "idle"
    /\ serial => OthersIdle(t)
    /\ Budget > 0
    /\ \E pi \in BOOLEAN :
          BeginBody(t, [NoJob EXCEPT !.kind = "daily", !.publish_immediately = pi,
                                     !.remaining = 1], serial)
    /\ UNCHANGED <<sched_vars, ext_vars, pub, publishers, stats, stats_doc, blog_posts, reached, incs>>

\* manual_blog_generation(topic, **kwargs)
ManualBlogGeneration(t, serial) ==
    /\ t = "manual"
    /\ pc[t] = "idle"
    /\ serial => OthersIdle(t)
    /\ Budget > 0
    /\ \E pi \in BOOLEAN :
          BeginBody(t, [NoJob EXCEPT !.kind = "manual", !.publish_immediately = pi,
                                     !.remaining = 1], serial)
    /\ UNCHANGED <<sched_vars, ext_vars, pub, publishers, stats, stats_doc, blog_posts, reached, incs>>

\* curation_job -> _curate_and_generate_content: one body per curated
\* topic, each with publish_immediately=False and platforms=None.
CurateAndGenerateContent(t, serial) ==
    /\ t = "loop"
    /\ pc[t] = "idle"
    /\ serial => OthersIdle(t)
    /\ Budget > 0
    /\ \E n \in 1..Min(NumTrendingTopics, Budget) :
          BeginBody(t, [NoJob EXCEPT !.kind = "curation", !.remaining = n], serial)
    /\ UNCHANGED <<sched_vars, ext_vars, pub, publishers, stats, stats_doc, blog_posts, reached, incs>>

\* blog_generator.generate_blog (lines 243-248): returns the processed
\* payload, status 'draft', or raises.
GenerateBlog(t) ==
    /\ pc[t] = "generate"
    /\ reached' = reached + 1
    /\ trace' = [trace EXCEPT ![t] = Append(@, Event("generate", 0, 0))]
    /\ \E ok \in BOOLEAN :
          IF ok
          THEN /\ local' = [local EXCEPT ![t].blog_data =
                               [id |-> 0, status |-> "draft", post |-> 0]]
               /\ pc' = [pc EXCEPT ![t] = "save_blog"]
          ELSE /\ pc' = [pc EXCEPT ![t] = "except_read"]
               /\ UNCHANGED local
    /\ UNCHANGED <<sched_vars, ext_vars, pub, publishers, stats, stats_doc, blog_posts, report, pre, incs>>

\* Where control goes after _save_blog_to_database returns / raises.
AfterSave(p) == IF p = "save_blog" THEN "gen_read" ELSE "s_gen_read"
\* A raising _save_blog_to_database that the body survives, going on to
\* the publish step.
AfterSaveRaisedGoesOn(p) == IF p = "save_blog" THEN "publish" ELSE "s_publish"
\* The except branch a raising _save_blog_to_database is caught by.
AfterSaveRaised(p) == IF p = "save_blog" THEN "except_read" ELSE "s_fail_read"

\* _save_blog_to_database logging a storage error instead of re-raising it.
SaveBlogToDatabaseSwallow(t) ==
    /\ pc[t] \in {"save_blog", "s_save_blog"}
    /\ \E ok \in BOOLEAN :
          IF ok
          THEN /\ blog_posts' = Append(blog_posts,
                                  [id |-> Len(blog_posts) + 1,
                                   status |-> local[t].blog_data.status,
                                   publish_result |-> NoPublishResult])
               /\ local' = [local EXCEPT ![t].blog_data.id = Len(blog_posts) + 1]
               /\ trace' = [trace EXCEPT ![t] =
                               Append(@, Event("persist", local[t].blog_data.post,
                                               Len(blog_posts) + 1))]
          ELSE UNCHANGED <<blog_posts, local, trace>>
    /\ pc' = [pc EXCEPT ![t] = AfterSave(pc[t])]
    /\ UNCHANGED <<sched_vars, ext_vars, pub, publishers, stats, stats_doc, report, pre, reached, incs>>

\* _save_blog_to_database: insert_one assigns the record its id; a storage
\* error is re-raised; an unsupported DATABASE_TYPE only logs a warning.
\* The document is the generator's payload, which holds no publish result;
\* no other statement writes to the collection.
SaveBlogToDatabase(t) ==
    /\ pc[t] \in {"save_blog", "s_save_blog"}
    /\ IF DATABASE_TYPE \in {"mongodb", "mysql"}
       THEN \E ok \in BOOLEAN :
              IF ok
              THEN /\ blog_posts' = Append(blog_posts,
                                      [id |-> Len(blog_posts) + 1,
                                       status |-> local[t].blog_data.status,
                                       publish_result |-> NoPublishResult])
                   /\ local' = [local EXCEPT ![t].blog_data.id = Len(blog_posts) + 1]
                   /\ trace' = [trace EXCEPT ![t] =
                                   Append(@, Event("persist", local[t].blog_data.post,
                                                   Len(blog_posts) + 1))]
                   /\ pc' = [pc EXCEPT ![t] = AfterSave(pc[t])]
              ELSE /\ pc' = [pc EXCEPT ![t] = AfterSaveRaised(pc[t])]
                   /\ UNCHANGED <<blog_posts, local, trace>>
       ELSE /\ pc' = [pc EXCEPT ![t] = AfterSave(pc[t])]
            /\ UNCHANGED <<blog_posts, local, trace>>
    /\ UNCHANGED <<sched_vars, ext_vars, pub, publishers, stats, stats_doc, report, pre, reached, incs>>

\* The counter a `self.stats[c] += 1` statement at this position reads.
CounterAt(t) ==
    CASE pc[t] \in {"gen_read", "s_gen_read"} -> "total_generated"
      [] pc[t] \in {"pub_read", "s_pub_read"} ->
            IF local[t].publish_result.success
            THEN "total_published" ELSE "failed_publications"
      [] OTHER -> "failed_generations"

WriteAfterRead(p) ==
    CASE p = "gen_read" -> "gen_write"
      [] p = "pub_read" -> "pub_write"
      [] p = "except_read" -> "except_write"
      [] p = "s_gen_read" -> "s_gen_write"
      [] p = "s_pub_read" -> "s_pub_write"
      [] OTHER -> "s_fail_write"

\* The load half of `self.stats[c] += 1`.
ReadCounter(t) ==
    /\ pc[t] \in {"gen_read", "pub_read", "except_read",
                  "s_gen_read", "s_pub_read", "s_fail_read"}
    /\ local' = [local EXCEPT ![t].tmp = stats[CounterAt(t)]]
    /\ pc' = [pc EXCEPT ![t] = WriteAfterRead(pc[t])]
    /\ UNCHANGED <<sched_vars, ext_vars, pub, publishers, stats, stats_doc, blog_posts, report, trace, pre,
                   reached, incs>>

\* The body counting a generation only when a scheduled job runs it.
RecordGenerationScheduledOnly(t, serial) ==
    /\ pc[t] = "gen_write"
    /\ stats' = IF local[t].job.kind = "manual"
                THEN [stats EXCEPT !.last_generation = Now]
                ELSE [stats EXCEPT !.total_generated = local[t].tmp + 1,
                                   !.last_generation = Now]
    /\ incs' = IF local[t].job.kind = "manual"
               THEN [incs EXCEPT !.unsaved = 0]
               ELSE [incs EXCEPT !.total_generated = @ + 1, !.unsaved = 0]
    /\ \E ok \in SaveOutcomes(serial) : stats_doc' = SaveStatistics(stats', ok)
    /\ pc' = [pc EXCEPT ![t] = "publish"]
    /\ UNCHANGED <<sched_vars, ext_vars, pub, publishers, blog_posts, local, report, trace,
                   pre, reached>>

\* Lines 254-256 with a _save_statistics whose failed write raises into
\* the except branch at line 279.
RecordGenerationSaveRaises(t, serial) ==
    /\ pc[t] = "gen_write"
    /\ stats' = [stats EXCEPT !.total_generated = local[t].tmp + 1,
                              !.last_generation = Now]
    /\ incs' = [incs EXCEPT !.total_generated = @ + 1, !.unsaved = 0]
    /\ \E ok \in SaveOutcomes(serial) :
          /\ stats_doc' = SaveStatistics(stats', ok)
          /\ pc' = [pc EXCEPT ![t] = IF ok THEN "publish" ELSE "except_read"]
    /\ UNCHANGED <<sched_vars, ext_vars, pub, publishers, blog_posts, local, report, trace, pre, reached>>

\* Lines 254-256: the store half of total_generated += 1, last_generation,
\* _save_statistics.
RecordGeneration(t, serial) ==
    /\ pc[t] = "gen_write"
    /\ stats' = [stats EXCEPT !.total_generated = local[t].tmp + 1,
                              !.last_generation = Now]
    /\ incs' = [incs EXCEPT !.total_generated = @ + 1, !.unsaved = 0]
    /\ \E ok \in SaveOutcomes(serial) : stats_doc' = SaveStatistics(stats', ok)
    /\ pc' = [pc EXCEPT ![t] = "publish"]
    /\ UNCHANGED <<sched_vars, ext_vars, pub, publishers, blog_posts, local, report, trace, pre, reached>>

\* The registries: each registrable name at most once, in insertion order.
Registries == {s \in SeqsUpTo(Registrable, Cardinality(Registrable)) : NoDup(s)}

\* What _publish_blog can return to a job body, by registry: over every
\* platforms argument the job can have been given and every behaviour of
\* the adapters called.  The body reads the platforms argument nowhere
\* before _publish_blog, so it is drawn here.
PublishResultsTable ==
    {<<regs,
       {[called |-> TRUE,
         success |-> PublishBlog(x[1], regs, x[2]).pr.success,
         error |-> PublishBlog(x[1], regs, x[2]).pr.error] :
           x \in UNION {{<<pl, out>> :
                           out \in [1..Len(ResolveTargets(pl, regs)) -> Outcomes]} :
                        pl \in PlatformArgs}}>> : regs \in Registries}

PublishResults(regs) == (CHOOSE e \in PublishResultsTable : e[1] = regs)[2]

\* The body calling _publish_blog whatever publish_immediately is.
PublishAlways(t) ==
    /\ pc[t] \in {"publish", "s_publish"}
    /\ \E pr \in PublishResults(publishers) :
          /\ local' = [local EXCEPT ![t].publish_result = pr]
          /\ trace' = [trace EXCEPT ![t] =
                          Append(@, Event("publish", local[t].blog_data.post,
                                          local[t].blog_data.id))]
    /\ pc' = [pc EXCEPT ![t] = IF pc[t] = "publish" THEN "pub_read" ELSE "s_pub_read"]
    /\ UNCHANGED <<sched_vars, ext_vars, pub, publishers, stats, stats_doc, blog_posts, report, pre,
                   reached, incs>>

\* Lines 258-262 (and 325-326 of the series loop): publish_result starts as
\* {'success': False}; _publish_blog is called only if publish_immediately.
Publish(t) ==
    /\ pc[t] \in {"publish", "s_publish"}
    /\ IF local[t].job.publish_immediately
       THEN \E pr \in PublishResults(publishers) :
                 /\ local' = [local EXCEPT ![t].publish_result = pr]
                 /\ trace' = [trace EXCEPT ![t] =
                                 Append(@, Event("publish", local[t].blog_data.post,
                                                 local[t].blog_data.id))]
       ELSE UNCHANGED <<local, trace>>
    /\ pc' = [pc EXCEPT ![t] = IF pc[t] = "publish" THEN "pub_read" ELSE "s_pub_read"]
    /\ UNCHANGED <<sched_vars, ext_vars, pub, publishers, stats, stats_doc, blog_posts, report, pre, reached, incs>>

\* Lines 265-277: the store half of the publication counter, last_publication
\* on success, _save_statistics, and the returned report.
RecordPublication(t, serial) ==
    /\ pc[t] = "pub_write"
    /\ LET ok_pub == local[t].publish_result.success
       IN /\ stats' = IF ok_pub
                      THEN [stats EXCEPT !.total_published = local[t].tmp + 1,
                                         !.last_publication = Now]
                      ELSE [stats EXCEPT !.failed_publications = local[t].tmp + 1]
          /\ incs' = IF ok_pub
                     THEN [incs EXCEPT !.total_published = @ + 1, !.unsaved = 0]
                     ELSE [incs EXCEPT !.failed_publications = @ + 1, !.unsaved = 0]
          /\ report' = [report EXCEPT ![t] =
                           [NoReport EXCEPT !.kind = local[t].job.kind,
                                            !.generation_success = TRUE,
                                            !.publish_success = ok_pub]]
    /\ \E ok \in SaveOutcomes(serial) : stats_doc' = SaveStatistics(stats', ok)
    /\ pc' = [pc EXCEPT ![t] = "done"]
    /\ UNCHANGED <<sched_vars, ext_vars, pub, publishers, blog_posts, local, trace, pre, reached>>

\* The except branch counting the failure as a failed publication too.
RecordFailureAsPublication(t, serial) ==
    /\ pc[t] = "except_write"
    /\ stats' = [stats EXCEPT !.failed_generations = local[t].tmp + 1,
                              !.failed_publications = @ + 1]
    /\ incs' = [incs EXCEPT !.failed_generations = @ + 1,
                            !.failed_publications = @ + 1, !.unsaved = 0]
    /\ \E ok \in SaveOutcomes(serial) : stats_doc' = SaveStatistics(stats', ok)
    /\ report' = [report EXCEPT ![t] =
                     [NoReport EXCEPT !.kind = local[t].job.kind,
                                      !.generation_success = FALSE]]
    /\ pc' = [pc EXCEPT ![t] = "done"]
    /\ UNCHANGED <<sched_vars, ext_vars, pub, publishers, blog_posts, local, trace, pre, reached>>

\* Lines 279-286: the except branch of the body.
RecordFailure(t, serial) ==
    /\ pc[t] = "except_write"
    /\ stats' = [stats EXCEPT !.failed_generations = local[t].tmp + 1]
    /\ incs' = [incs EXCEPT !.failed_generations = @ + 1, !.unsaved = 0]
    /\ \E ok \in SaveOutcomes(serial) : stats_doc' = SaveStatistics(stats', ok)
    /\ report' = [report EXCEPT ![t] =
                     [NoReport EXCEPT !.kind = local[t].job.kind,
                                      !.generation_success = FALSE]]
    /\ pc' = [pc EXCEPT ![t] = "done"]
    /\ UNCHANGED <<sched_vars, ext_vars, pub, publishers, blog_posts, local, trace, pre, reached>>


\* ------------------------------------------------------------- series
\* Entry of _generate_blog_series with the given parameters.
BeginSeries(t, kind, pi, n, serial) ==
    /\ pc' = [pc EXCEPT ![t] = "s_generate"]
    /\ local' = [local EXCEPT ![t] =
                    [NoLocal EXCEPT !.job = [NoJob EXCEPT !.kind = kind,
                                                          !.publish_immediately = pi,
                                                          !.num_posts = n]]]
    /\ trace' = [trace EXCEPT ![t] = <<>>]
    /\ pre' = [pre EXCEPT ![t] = IF serial
                                  THEN [stats |-> stats, posts |-> Len(blog_posts)]
                                  ELSE NoPre]
    /\ report' = [report EXCEPT ![t] = NoReport]

\* weekly_series_job, run by the scheduler loop.
WeeklySeriesJob(t, serial) ==
    /\ t = "loop"
    /\ pc[t] = "idle"
    /\ serial => OthersIdle(t)
    /\ Budget > 0
    /\ \E pi \in BOOLEAN, n \in 1..(Budget) :
          BeginSeries(t, "weekly_series", pi, n, serial)
    /\ UNCHANGED <<sched_vars, ext_vars, pub, publishers, stats, stats_doc, blog_posts, reached, incs>>

\* manual_blog_series(main_topic, num_posts, **kwargs)
ManualBlogSeries(t, serial) ==
    /\ t = "manual"
    /\ pc[t] = "idle"
    /\ serial => OthersIdle(t)
    /\ Budget > 0
    /\ \E pi \in BOOLEAN, n \in 1..(Budget) :
          BeginSeries(t, "manual_series", pi, n, serial)
    /\ UNCHANGED <<sched_vars, ext_vars, pub, publishers, stats, stats_doc, blog_posts, reached, incs>>

\* BlogGenerator.generate_blog_series, one generate_blog call of its loop
\* (lines 269-284).  A raising call ends generate_blog_series (line 291)
\* and _generate_blog_series with it (lines 364-369).
SeriesGenerate(t) ==
    /\ pc[t] = "s_generate"
    /\ reached' = reached + 1
    /\ LET k == Len(local[t].blog_series) + 1
       IN /\ trace' = [trace EXCEPT ![t] = Append(@, Event("generate", k, 0))]
          /\ \E ok \in BOOLEAN :
                IF ok
                THEN LET series == Append(local[t].blog_series,
                                          [id |-> 0, status |-> "draft", post |-> k])
                     IN IF k < local[t].job.num_posts
                        THEN /\ local' = [local EXCEPT ![t].blog_series = series]
                             /\ pc' = pc
                             /\ report' = report
                        ELSE /\ local' = [local EXCEPT ![t].blog_series = series,
                                                       ![t].i = 1,
                                                       ![t].blog_data = series[1]]
                             /\ pc' = [pc EXCEPT ![t] = "s_save_blog"]
                             /\ report' = report
                ELSE /\ report' = [report EXCEPT ![t] =
                                      [NoReport EXCEPT !.kind = local[t].job.kind,
                                                       !.series_success = FALSE]]
                     /\ pc' = [pc EXCEPT ![t] = "done"]
                     /\ local' = local
    /\ UNCHANGED <<sched_vars, ext_vars, pub, publishers, stats, stats_doc, blog_posts, pre, incs>>

\* results.append(...) for post i, then the next iteration of the loop at
\* line 316, or the code after it.
Advance(l, result) ==
    LET l1 == [l EXCEPT !.series_results = Append(@, result),
                        !.publish_result = NoPublishResult,
                        !.tmp = 0]
    IN IF l.i < Len(l.blog_series)
       THEN [l1 EXCEPT !.i = l.i + 1, !.blog_data = l.blog_series[l.i + 1]]
       ELSE l1

AfterAdvance(l) == IF l.i < Len(l.blog_series) THEN "s_save_blog" ELSE "s_finish"

PostResult(l, gen_ok, pub_ok) ==
    [post_number |-> l.i, generation_success |-> gen_ok, publish_success |-> pub_ok]

\* Line 322: the store half of total_generated += 1 in the series loop.
SeriesRecordGeneration(t) ==
    /\ pc[t] = "s_gen_write"
    /\ stats' = [stats EXCEPT !.total_generated = local[t].tmp + 1]
    /\ incs' = [incs EXCEPT !.total_generated = @ + 1, !.unsaved = @ + 1]
    /\ IF local[t].job.publish_immediately
       THEN /\ pc' = [pc EXCEPT ![t] = "s_publish"]
            /\ local' = local
       ELSE /\ pc' = [pc EXCEPT ![t] = AfterAdvance(local[t])]
            /\ local' = [local EXCEPT ![t] =
                            Advance(local[t], PostResult(local[t], TRUE, FALSE))]
    /\ UNCHANGED <<sched_vars, ext_vars, pub, publishers, stats_doc, blog_posts, report, trace, pre, reached>>

\* Lines 328-339: the store half of the publication counter, published_count
\* and the post's entry in results.
SeriesRecordPublication(t) ==
    /\ pc[t] = "s_pub_write"
    /\ LET ok_pub == local[t].publish_result.success
       IN /\ stats' = IF ok_pub
                      THEN [stats EXCEPT !.total_published = local[t].tmp + 1]
                      ELSE [stats EXCEPT !.failed_publications = local[t].tmp + 1]
          /\ incs' = IF ok_pub
                     THEN [incs EXCEPT !.total_published = @ + 1, !.unsaved = @ + 1]
                     ELSE [incs EXCEPT !.failed_publications = @ + 1,
                                       !.unsaved = @ + 1]
          /\ local' = [local EXCEPT ![t] =
                          Advance([local[t] EXCEPT !.published_count =
                                      IF ok_pub THEN @ + 1 ELSE @],
                                  PostResult(local[t], TRUE, ok_pub))]
    /\ pc' = [pc EXCEPT ![t] = AfterAdvance(local[t])]
    /\ UNCHANGED <<sched_vars, ext_vars, pub, publishers, stats_doc, blog_posts, report, trace, pre, reached>>

\* Lines 345-352: the except branch of the series loop.
SeriesRecordFailure(t) ==
    /\ pc[t] = "s_fail_write"
    /\ stats' = [stats EXCEPT !.failed_generations = local[t].tmp + 1]
    /\ incs' = [incs EXCEPT !.failed_generations = @ + 1, !.unsaved = @ + 1]
    /\ local' = [local EXCEPT ![t] =
                    Advance(local[t], PostResult(local[t], FALSE, FALSE))]
    /\ pc' = [pc EXCEPT ![t] = AfterAdvance(local[t])]
    /\ UNCHANGED <<sched_vars, ext_vars, pub, publishers, stats_doc, blog_posts, report, trace, pre, reached>>

\* Lines 354-362: last_generation, _save_statistics and the series report.
SeriesFinish(t, serial) ==
    /\ pc[t] = "s_finish"
    /\ stats' = [stats EXCEPT !.last_generation = Now]
    /\ \E ok \in SaveOutcomes(serial) : stats_doc' = SaveStatistics(stats', ok)
    /\ report' = [report EXCEPT ![t] =
                     [NoReport EXCEPT !.kind = local[t].job.kind,
                                      !.series_success = TRUE,
                                      !.results = local[t].series_results]]
    /\ incs' = [incs EXCEPT !.unsaved = 0]
    /\ pc' = [pc EXCEPT ![t] = "done"]
    /\ UNCHANGED <<sched_vars, ext_vars, pub, publishers, blog_posts, local, trace, pre, reached>>

\* The caller takes the report: a curation job goes on to its next topic
\* (lines 391-398), any other job is over.
Finish(t) ==
    /\ pc[t] = "done"
    /\ IF local[t].job.kind = "curation" /\ local[t].job.remaining > 1
       THEN BeginBody(t, [local[t].job EXCEPT !.remaining = @ - 1], OthersIdle(t))
       ELSE /\ pc' = [pc EXCEPT ![t] = "idle"]
            /\ local' = [local EXCEPT ![t] = NoLocal]
            /\ trace' = [trace EXCEPT ![t] = <<>>]
            /\ pre' = [pre EXCEPT ![t] = NoPre]
            /\ report' = [report EXCEPT ![t] = NoReport]
    /\ UNCHANGED <<sched_vars, ext_vars, pub, publishers, stats, stats_doc, blog_posts, reached, incs>>

\* ----------------------------------------------------- scheduler loop
\* The scheduler's lifecycle (start, stop, the loop thread) and the
\* registration of recurring jobs with the `schedule` package.  A job is
\* kept as what the loop does with it: whether it is due and whether its
\* function can raise (the bodies the scheduler registers itself catch
\* every Exception; a function given to add_custom_job need not).
LoopIds == 1..MaxLoops
JobIds == 1..MaxJobs

NoLoop == [state |-> "none", job |-> 0, todo |-> {}, stale |-> FALSE]
NoJobObject == [func |-> "none", due |-> FALSE]
NoCall == [op |-> "none", malformed |-> FALSE, outcome |-> "none",
           registered |-> FALSE]

\* time_str arguments: <<hour, minute>> for "HH:MM", <<>> for a string that
\* is no such pair.
TimeStrs == {<<9, 0>>, <<24, 0>>, <<9, 60>>, <<>>}
\* Job.at(time_str) of a daily job: raises unless time_str is a time of day.
AtAccepts(time_str) ==
    /\ Len(time_str) = 2
    /\ time_str[1] \in 0..23
    /\ time_str[2] \in 0..59
\* frequency_hours / schedule_config['interval'] arguments.
IntervalHours == {0 - 1, 0, 6}
ScheduleTypes == {"daily", "weekly", "hours", "monthly"}

NoNextRun == [called |-> FALSE, frequency |-> "none", time |-> <<>>, now |-> 0,
              result |-> 0]

\* What two runs under comparison are given: publish_immediately, and what
\* the collaborators answer - generate_blog and _save_blog_to_database
\* returning or raising, the dict _publish_blog returns, and whether the
\* first and the second _save_statistics write of the run succeed.
NoScript == [set |-> FALSE, publish_immediately |-> FALSE, gen_ok |-> FALSE,
             save_ok |-> FALSE, pr |-> NoPublishResult,
             stat_ok |-> <<FALSE, FALSE>>]
\* What a run of the single-post body did and returned.
NoEffects == [trace |-> <<>>, counters |-> [c \in Counters |-> 0],
              posts |-> <<>>, saved |-> FALSE, report |-> NoReport]
NoTwin == [set |-> FALSE, manual |-> FALSE, effects |-> NoEffects]
\* What the remote end does with a create-post request: answers with a
\* status code and a body (a JSON object holding the post's id, a JSON
\* object without one, or no JSON), or the request times out or cannot
\* connect.
NoCondition == [kind |-> "none", status_code |-> 0, body |-> "none"]
\* What publish_post does: returns a dict, returns None, or raises.
NoResult == [returned |-> "none", success |-> FALSE, post_id |-> "None", error |-> ""]
NoAttempt == [adapter |-> "none", cond |-> NoCondition, result |-> NoResult]
\* An add_*_publisher call: the name, whether it was registered and how
\* many names were, whether the publisher's constructor returned, the
\* instances constructed so far, the call's own being the last, and whether
\* the call raised.
NoRegCall == [op |-> "none", name |-> "", adapter |-> "none",
              was_registered |-> FALSE, names_before |-> 0,
              constructed |-> FALSE, made |-> 0, raised |-> FALSE]
\* A publisher instance: its class, and the number of the constructor call
\* that made it (0: by _setup_default_publishers or the application).
DefaultInstance(name) ==
    [cls |-> IF name = "default_wordpress"
             THEN "WordPressPublisher" ELSE "NextJSAPIPublisher",
     id |-> 0]
\* A construction of BlogScheduler: what the statistics store holds or does
\* when _load_statistics reads it, and how __init__ ended.
NoBoot == [store |-> "none", outcome |-> "none"]

\* A restart of the process: none yet.
NoProcess == [restarts |-> 0, before |-> ZeroStats, saved |-> ZeroStats,
              after |-> ZeroStats]

\* A call on demo_blog_posts: none yet, no id deleted, no record created.
NoPostCall == [op |-> "none", post_id |-> 0, deleted |-> {}, created |-> 0]

\* ------------------------------------------------------ specification
\* The attributes __init__ assigns (lines 35-51), with no job running, no
\* loop thread and no registered job.
Fresh ==
    /\ stats = ZeroStats
    /\ blog_posts = <<>>
    /\ pc = [t \in Threads |-> "idle"]
    /\ local = [t \in Threads |-> NoLocal]
    /\ report = [t \in Threads |-> NoReport]
    /\ trace = [t \in Threads |-> <<>>]
    /\ pre = [t \in Threads |-> NoPre]
    /\ reached = 0
    /\ incs = [c \in Counters \cup {"unsaved"} |-> 0]
    /\ pub = NoPub
    /\ is_running = FALSE
    /\ scheduler_thread = 0
    /\ jobs = {}
    /\ job_objs = [j \in JobIds |-> NoJobObject]
    /\ loops = [l \in LoopIds |-> NoLoop]
    /\ caller = [pc |-> "idle", last |-> NoCall]
    /\ next_run = NoNextRun

\* No call of the schedules API yet.
ApiIdle == blog_schedules = <<>> /\ api_calls = <<>>
\* No pair of runs under comparison.
EquivIdle == script = NoScript /\ twin = NoTwin
\* No publish_post call yet.
AdapterIdle == attempt = NoAttempt
\* The publishers registered at construction are instance 0 of their names.
RegIdle ==
    /\ instances = [n \in Range(publishers) |-> DefaultInstance(n)]
    /\ reg_call = NoRegCall
\* No construction under observation.
LoadIdle == boot = NoBoot
\* No restart, no record of the demo store, no topic selected.
RestartIdle == process = NoProcess
RecordIdle == demo_blog_posts = <<>> /\ post_call = NoPostCall
TopicIdle == selection = <<>>
LateIdle == RestartIdle /\ RecordIdle /\ TopicIdle

\* After BlogScheduler.__init__ (lines 33-57) with no saved statistics, the
\* registry apart.
Constructed ==
    /\ Fresh
    /\ stats_doc = ZeroStats
    /\ ApiIdle
    /\ EquivIdle
    /\ AdapterIdle
    /\ RegIdle
    /\ LoadIdle
    /\ LateIdle

\* _setup_default_publishers has registered the publishers the settings
\* name and whose construction succeeded.  The job body reads of the
\* registry only whether it is empty and what _publish_blog returns.
Init == publishers \in {<<>>, <<"default_wordpress", "nextjs_site">>} /\ Constructed

Body(t, serial) ==
    \/ GenerateBlog(t)
    \/ SaveBlogToDatabase(t)
    \/ ReadCounter(t)
    \/ RecordGeneration(t, serial)
    \/ Publish(t)
    \/ RecordPublication(t, serial)
    \/ RecordFailure(t, serial)
    \/ SeriesGenerate(t)
    \/ SeriesRecordGeneration(t)
    \/ SeriesRecordPublication(t)
    \/ SeriesRecordFailure(t)
    \/ SeriesFinish(t, serial)
    \/ Finish(t)

Start(t, serial) ==
    \/ DailyBlogJob(t, serial)
    \/ ManualBlogGeneration(t, serial)
    \/ CurateAndGenerateContent(t, serial)
    \/ WeeklySeriesJob(t, serial)
    \/ ManualBlogSeries(t, serial)

\* One job at a time.
Next == \E t \in Threads : Start(t, TRUE) \/ Body(t, TRUE)
Spec == Init /\ [][Next]_vars

\* The loop thread and a manual trigger interleave; both publishers are
\* registered.
ConcInit == publishers = <<"default_wordpress", "nextjs_site">> /\ Constructed
ConcNext == \E t \in Threads : Start(t, FALSE) \/ Body(t, FALSE)
ConcSpec == ConcInit /\ [][ConcNext]_vars

\* _publish_blog called directly, over every registry, platforms argument
\* and adapter behaviour.
PublishBlogCall ==
    /\ pub.op = "none"
    /\ \E pl \in PlatformArgs :
       \E out \in [1..Len(ResolveTargets(pl, publishers)) -> Outcomes] :
          LET r == PublishBlog(pl, publishers, out)
          IN pub' = [op |-> "_publish_blog", platforms |-> pl, pr |-> r.pr,
                     results |-> r.results, calls |-> r.calls, target |-> r.target]
    /\ UNCHANGED <<sched_vars, ext_vars, publishers, stats, stats_doc, blog_posts, pc, local, report,
                   trace, pre, reached, incs>>

\* publish_to_all called directly.
PublishToAllCall ==
    /\ pub.op = "none"
    /\ \E pl \in PlatformArgs :
       \E out \in [1..Len(ResolveTargets(pl, publishers)) -> Outcomes] :
          LET r == PublishToAll(pl, publishers, out)
          IN pub' = [NoPub EXCEPT !.op = "publish_to_all", !.platforms = pl,
                                  !.results = r.results, !.calls = r.calls,
                                  !.target = ResolveTargets(pl, publishers)]
    /\ UNCHANGED <<sched_vars, ext_vars, publishers, stats, stats_doc, blog_posts, pc, local, report,
                   trace, pre, reached, incs>>

PubInit == publishers \in Registries /\ Constructed
PubNext == PublishBlogCall \/ PublishToAllCall
PubSpec == PubInit /\ [][PubNext]_vars

\* ------------------------------------------ scheduler loop: actions
\* Threads created by start() so far.
ThreadsStarted == Cardinality({l \in LoopIds : loops[l].state # "none"})
\* Job objects created by do() so far.
JobsCreated == Cardinality({j \in JobIds : job_objs[j].func # "none"})
Alive(l) == loops[l].state \in {"started", "run_pending", "in_job", "sleep"}

\* .do(job_func): a new Job appended to schedule.jobs, not due yet.
Do(func) ==
    /\ JobsCreated < MaxJobs
    /\ job_objs' = [job_objs EXCEPT ![JobsCreated + 1] = [func |-> func, due |-> FALSE]]
    /\ jobs' = jobs \cup {JobsCreated + 1}

\* A step of another thread, or of time: no call has just returned.
Forget == caller' = [caller EXCEPT !.last = NoCall]

Returned(op, malformed, outcome, registered) ==
    caller' = [caller EXCEPT !.last = [op |-> op, malformed |-> malformed,
                                       outcome |-> outcome,
                                       registered |-> registered]]

\* schedule_daily_blog_generation: every().day.at(time_str).do(daily_blog_job);
\* an exception of at() is caught and False returned.
ScheduleDailyBlogGeneration ==
    /\ caller.pc = "idle"
    /\ \E time_str \in TimeStrs :
          IF AtAccepts(time_str)
          THEN /\ Do("daily_blog_job")
               /\ Returned("schedule_daily_blog_generation", FALSE, "true", TRUE)
          ELSE /\ Returned("schedule_daily_blog_generation", TRUE, "false", FALSE)
               /\ UNCHANGED <<job_objs, jobs>>
    /\ UNCHANGED <<is_running, scheduler_thread, loops, next_run, pipeline_vars, ext_vars>>

\* schedule_weekly_blog_series: every().week.on(...) raises AttributeError
\* (a Job has no attribute 'on'), which is caught and False returned.
ScheduleWeeklyBlogSeries ==
    /\ caller.pc = "idle"
    /\ Returned("schedule_weekly_blog_series", FALSE, "false", FALSE)
    /\ UNCHANGED <<job_objs, jobs, is_running, scheduler_thread, loops, next_run,
                   pipeline_vars, ext_vars>>

\* schedule_content_curation: every(frequency_hours).hours.do(curation_job);
\* neither the method nor every() looks at the value of frequency_hours.
ScheduleContentCuration ==
    /\ caller.pc = "idle"
    /\ \E frequency_hours \in IntervalHours :
          /\ Do("curation_job")
          /\ Returned("schedule_content_curation", frequency_hours <= 0,
                      "true", TRUE)
    /\ UNCHANGED <<is_running, scheduler_thread, loops, next_run, pipeline_vars, ext_vars>>

\* add_custom_job(job_func, schedule_config): an exception is logged and
\* re-raised; a type other than daily, weekly, hours registers nothing.
AddCustomJob ==
    /\ caller.pc = "idle"
    /\ \E type \in ScheduleTypes :
          CASE type = "daily" ->
                 \E time_str \in TimeStrs :
                    IF AtAccepts(time_str)
                    THEN /\ Do("custom")
                         /\ Returned("add_custom_job", FALSE, "returned", TRUE)
                    ELSE /\ Returned("add_custom_job", TRUE, "raised", FALSE)
                         /\ UNCHANGED <<job_objs, jobs>>
            [] type = "weekly" ->
                 /\ Returned("add_custom_job", FALSE, "raised", FALSE)
                 /\ UNCHANGED <<job_objs, jobs>>
            [] type = "hours" ->
                 \E interval \in IntervalHours :
                    /\ Do("custom")
                    /\ Returned("add_custom_job", interval <= 0, "returned", TRUE)
            [] OTHER ->
                 /\ Returned("add_custom_job", FALSE, "returned", FALSE)
                 /\ UNCHANGED <<job_objs, jobs>>
    /\ UNCHANGED <<is_running, scheduler_thread, loops, next_run, pipeline_vars, ext_vars>>

\* Time passes and a registered job's next_run is reached.
JobBecomesDue ==
    /\ \E j \in jobs :
          /\ ~job_objs[j].due
          /\ job_objs' = [job_objs EXCEPT ![j].due = TRUE]
    /\ Forget
    /\ UNCHANGED <<jobs, is_running, scheduler_thread, loops, next_run,
                   pipeline_vars, ext_vars>>

\* start(): nothing if is_running; else is_running = True and a new daemon
\* thread running scheduler_loop.  (stale marks, for the loops already
\* alive, that a later thread has been created since their tick began.)
SchedulerStart ==
    /\ caller.pc = "idle"
    /\ IF is_running
       THEN /\ Returned("start", FALSE, "already running", FALSE)
            /\ UNCHANGED <<is_running, scheduler_thread, loops>>
       ELSE /\ ThreadsStarted < MaxLoops
            /\ is_running' = TRUE
            /\ scheduler_thread' = ThreadsStarted + 1
            /\ loops' = [l \in LoopIds |->
                            IF l = ThreadsStarted + 1
                            THEN [NoLoop EXCEPT !.state = "started"]
                            ELSE IF Alive(l)
                                 THEN [loops[l] EXCEPT !.stale = TRUE]
                                 ELSE loops[l]]
            /\ Returned("start", FALSE, "started", FALSE)
    /\ UNCHANGED <<job_objs, jobs, next_run, pipeline_vars, ext_vars>>

\* stop(), up to the join: nothing if not is_running; else is_running = False.
SchedulerStop ==
    /\ caller.pc = "idle"
    /\ IF ~is_running
       THEN /\ Returned("stop", FALSE, "not running", FALSE)
            /\ UNCHANGED is_running
       ELSE /\ is_running' = FALSE
            /\ caller' = [pc |-> "join", last |-> NoCall]
    /\ UNCHANGED <<job_objs, jobs, scheduler_thread, loops, next_run, pipeline_vars, ext_vars>>

\* stop(), from the join on: scheduler_thread.join(timeout=5) returns when
\* the thread has ended, or after 5 seconds, which a loop that is asleep
\* for 1 second outlasts only inside a job; then schedule.clear().
SchedulerStopJoined ==
    /\ caller.pc = "join"
    /\ ~Alive(scheduler_thread) \/ loops[scheduler_thread].state = "in_job"
    /\ jobs' = {}
    /\ caller' = [pc |-> "idle",
                  last |-> [op |-> "stop", malformed |-> FALSE,
                            outcome |-> "stopped", registered |-> FALSE]]
    /\ UNCHANGED <<job_objs, is_running, scheduler_thread, loops, next_run,
                   pipeline_vars, ext_vars>>

\* scheduler_loop with `while True:` for its loop condition.
LoopTickForever(l) ==
    /\ loops[l].state \in {"started", "sleep"}
    /\ loops' = [loops EXCEPT ![l] =
                    [state |-> "run_pending", job |-> 0,
                     todo |-> {j \in jobs : job_objs[j].due}, stale |-> FALSE]]
    /\ Forget
    /\ UNCHANGED <<job_objs, jobs, is_running, scheduler_thread, next_run,
                   pipeline_vars, ext_vars>>

\* scheduler_loop, `while self.is_running:` - the next tick begins with
\* run_pending() taking the jobs that are due, or the thread ends.
LoopTick(l) ==
    /\ loops[l].state \in {"started", "sleep"}
    /\ loops' = [loops EXCEPT ![l] =
                    IF is_running
                    THEN [state |-> "run_pending", job |-> 0,
                          todo |-> {j \in jobs : job_objs[j].due}, stale |-> FALSE]
                    ELSE [NoLoop EXCEPT !.state = "exited"]]
    /\ Forget
    /\ UNCHANGED <<job_objs, jobs, is_running, scheduler_thread, next_run,
                   pipeline_vars, ext_vars>>

\* run_pending() calls the next runnable job's function.
RunJob(l) ==
    /\ loops[l].state = "run_pending"
    /\ \E j \in loops[l].todo :
          loops' = [loops EXCEPT ![l].state = "in_job", ![l].job = j,
                                 ![l].todo = @ \ {j}]
    /\ Forget
    /\ UNCHANGED <<job_objs, jobs, is_running, scheduler_thread, next_run,
                   pipeline_vars, ext_vars>>

\* The job function returns: Job.run sets last_run and computes the next
\* next_run.
JobReturn(l) ==
    /\ loops[l].state = "in_job"
    /\ job_objs' = [job_objs EXCEPT ![loops[l].job].due = FALSE]
    /\ loops' = [loops EXCEPT ![l].state = "run_pending", ![l].job = 0]
    /\ Forget
    /\ UNCHANGED <<jobs, is_running, scheduler_thread, next_run, pipeline_vars, ext_vars>>

\* The job function raises: nothing between it and the thread's target
\* catches, so scheduler_loop ends; next_run is left as it was.
JobRaise(l) ==
    /\ loops[l].state = "in_job"
    /\ job_objs[loops[l].job].func = "custom"
    /\ loops' = [loops EXCEPT ![l] = [NoLoop EXCEPT !.state = "crashed"]]
    /\ Forget
    /\ UNCHANGED <<job_objs, jobs, is_running, scheduler_thread, next_run,
                   pipeline_vars, ext_vars>>

\* run_pending() has run every job it took; time.sleep(1).
RunPendingReturn(l) ==
    /\ loops[l].state = "run_pending"
    /\ loops[l].todo = {}
    /\ loops' = [loops EXCEPT ![l].state = "sleep"]
    /\ Forget
    /\ UNCHANGED <<job_objs, jobs, is_running, scheduler_thread, next_run,
                   pipeline_vars, ext_vars>>

LoopStep(l) ==
    \/ LoopTick(l) \/ RunJob(l) \/ JobReturn(l) \/ JobRaise(l)
    \/ RunPendingReturn(l)

Register ==
    \/ ScheduleDailyBlogGeneration \/ ScheduleWeeklyBlogSeries
    \/ ScheduleContentCuration \/ AddCustomJob

LifeInit == publishers = <<>> /\ Constructed
LifeNext ==
    \/ Register \/ JobBecomesDue
    \/ SchedulerStart \/ SchedulerStop \/ SchedulerStopJoined
    \/ \E l \in LoopIds : LoopStep(l)
LifeSpec == LifeInit /\ [][LifeNext]_vars
\* The loop threads are scheduled and a job function that is running
\* ends, by returning or by raising.
FairLifeSpec == LifeSpec /\ \A l \in LoopIds : WF_vars(LoopStep(l))

\* ------------------------------------------------- calculate_next_run
\* Times are seconds since a Monday 00:00:00; a `now` with second 0 stands
\* for the exact minute, one with second 30 for any later instant of it.
Hour == 60 * 60
Day == 24 * Hour
Frequencies == {"daily", "weekly", "hours"}
\* "HH:MM" arguments, as <<hour, minute>>.
TimesOfDay == {<<0, 0>>, <<9, 30>>, <<23, 59>>}
Nows ==
    {((wd * 24 + h) * 60 + m) * 60 + sec :
        wd \in 0..6, h \in {0, 9, 23}, m \in {0, 30, 59}, sec \in {0, 30}}
\* datetime.weekday(): Monday is 0.
Weekday(now) == (now \div Day) % 7
\* now.replace(hour=hour, minute=minute, second=0, microsecond=0)
Replace(now, hour, minute) == (now \div Day) * Day + hour * Hour + minute * 60

\* calculate_next_run with `if next_run < now` in the daily branch.
CalculateNextRunLt(frequency, time, now) ==
    LET at == Replace(now, time[1], time[2])
        days_ahead == 7 - Weekday(now)
    IN CASE frequency = "daily" -> IF at < now THEN at + Day ELSE at
         [] frequency = "weekly" ->
               at + (IF days_ahead <= 0 THEN days_ahead + 7 ELSE days_ahead) * Day
         [] OTHER -> now + 24 * Hour

\* calculate_next_run(frequency, time), with datetime.now() = now.
CalculateNextRun(frequency, time, now) ==
    LET at == Replace(now, time[1], time[2])
        days_ahead == 7 - Weekday(now)
    IN CASE frequency = "daily" -> IF at <= now THEN at + Day ELSE at
         [] frequency = "weekly" ->
               at + (IF days_ahead <= 0 THEN days_ahead + 7 ELSE days_ahead) * Day
         [] OTHER -> now + 24 * Hour

CalculateNextRunCall ==
    /\ ~next_run.called
    /\ \E frequency \in Frequencies, time \in TimesOfDay, now \in Nows :
          next_run' = [called |-> TRUE, frequency |-> frequency, time |-> time,
                       now |-> now,
                       result |-> CalculateNextRun(frequency, time, now)]
    /\ UNCHANGED <<is_running, scheduler_thread, jobs, job_objs, loops, caller,
                   pipeline_vars, ext_vars>>

NextRunInit == publishers = <<>> /\ Constructed
NextRunNext == CalculateNextRunCall
NextRunSpec == NextRunInit /\ [][NextRunNext]_vars


\* -------------------------------------------------- schedules API
\* blog_automation_app.py: the /api/blog/schedule(s) endpoints over the
\* module-level list blog_schedules.  A schedule is kept as its "id".
ScheduleIds == 1..(MaxSchedules + 1)
\* A response body: the "success" key, if present, and the "error" text.
ApiResponse(has_success, success, error) ==
    [has_success |-> has_success, success |-> success, error |-> error]
ApiCall(op, schedule_id, response, before) ==
    [op |-> op, schedule_id |-> schedule_id, response |-> response,
     before |-> before]
\* The call that has just returned, after the one before it.
Responded(call) ==
    api_calls' = IF api_calls = <<>> THEN <<call>>
                 ELSE <<api_calls[Len(api_calls)], call>>

\* POST /api/blog/schedule: no topics is refused; calculate_next_run raising
\* on the time string (no "H:M" pair of integers, or an hour or minute that
\* datetime.replace refuses) is caught; else a schedule with id len + 1 is
\* appended.
ScheduleBlogGenerationApi ==
    /\ \E has_topics \in BOOLEAN, frequency \in Frequencies, time_str \in TimeStrs :
          LET id == Len(blog_schedules) + 1
              raises == \/ Len(time_str) # 2
                        \/ frequency \in {"daily", "weekly"} /\ ~AtAccepts(time_str)
          IN IF ~has_topics
             THEN /\ Responded(ApiCall("schedule", 0,
                        ApiResponse(FALSE, FALSE, "At least one topic is required"),
                        blog_schedules))
                  /\ UNCHANGED blog_schedules
             ELSE IF raises
             THEN /\ Responded(ApiCall("schedule", 0,
                        ApiResponse(TRUE, FALSE, "Failed to schedule blog generation"),
                        blog_schedules))
                  /\ UNCHANGED blog_schedules
             ELSE /\ Len(blog_schedules) < MaxSchedules
                  /\ blog_schedules' = Append(blog_schedules, id)
                  /\ Responded(ApiCall("schedule", id, ApiResponse(TRUE, TRUE, ""),
                                       blog_schedules))
    /\ UNCHANGED <<pipeline_vars, sched_vars, equiv_vars, adapter_vars, reg_vars,
                   load_vars, late_vars>>

\* DELETE /api/blog/schedules/{schedule_id}: every schedule with that id is
\* dropped; the list not getting shorter is answered with an error.
DeleteBlogSchedule(schedule_id) ==
    /\ blog_schedules' = SelectSeq(blog_schedules, LAMBDA s : s # schedule_id)
    /\ Responded(ApiCall("delete", schedule_id,
                         IF Len(blog_schedules') < Len(blog_schedules)
                         THEN ApiResponse(TRUE, TRUE, "")
                         ELSE ApiResponse(FALSE, FALSE, "Schedule not found"),
                         blog_schedules))
    /\ UNCHANGED <<pipeline_vars, sched_vars, equiv_vars, adapter_vars, reg_vars,
                   load_vars, late_vars>>

ApiInit == publishers = <<>> /\ Constructed
ApiNext ==
    \/ ScheduleBlogGenerationApi
    \/ \E schedule_id \in ScheduleIds : DeleteBlogSchedule(schedule_id)
ApiSpec == ApiInit /\ [][ApiNext]_vars


\* ----------------------------------------- manual and scheduled runs
\* A scheduled daily run and a manual trigger of the single-post body,
\* given the same publish_immediately and the same collaborator responses
\* (script); the first run to return is kept in twin, to compare the other
\* with.
Scripts(regs) ==
    [set : {TRUE}, publish_immediately : BOOLEAN, gen_ok : BOOLEAN,
     save_ok : BOOLEAN, pr : PublishResults(regs), stat_ok : [1..2 -> BOOLEAN]]

\* The step context t has just taken got from the collaborator it called
\* the response the script holds.
Follows(t) ==
    /\ pc[t] = "generate" => ((pc'[t] = "save_blog") <=> script.gen_ok)
    /\ pc[t] = "save_blog" => ((pc'[t] = "gen_read") <=> script.save_ok)
    /\ (pc[t] = "publish" /\ local[t].job.publish_immediately)
          => local'[t].publish_result = script.pr
    /\ pc[t] \in {"gen_write", "except_write"}
          => ((stats_doc' = stats') <=> script.stat_ok[1])
    /\ pc[t] = "pub_write" => ((stats_doc' = stats') <=> script.stat_ok[2])

\* What the run of context t, which has returned, did: its generate,
\* persist and publish events and the records it inserted (ids counted
\* from the collection's size when it began), what it added to the
\* counters, whether the durable statistics are current, and its report.
RunEffects(t) ==
    [trace |-> [i \in DOMAIN trace[t] |->
                  [trace[t][i] EXCEPT !.id = IF @ = 0 THEN 0 ELSE @ - pre[t].posts]],
     counters |-> [c \in Counters |-> stats[c] - pre[t].stats[c]],
     posts |-> [i \in 1..(Len(blog_posts) - pre[t].posts) |->
                  blog_posts[pre[t].posts + i].status],
     saved |-> stats_doc = stats,
     report |-> [report[t] EXCEPT !.kind = "single"]]

\* daily_blog_job with the script's publish_immediately.
ScheduledRun ==
    /\ DailyBlogJob("loop", TRUE)
    /\ local'["loop"].job.publish_immediately = script.publish_immediately

\* manual_blog_generation(topic, publish_immediately=...) with the same.
ManualRun ==
    /\ ManualBlogGeneration("manual", TRUE)
    /\ local'["manual"].job.publish_immediately = script.publish_immediately

\* One step of _generate_and_publish_blog, answered as the script says.
RunStep(t) ==
    /\ \/ GenerateBlog(t)
       \/ SaveBlogToDatabase(t)
       \/ ReadCounter(t)
       \/ RecordGeneration(t, TRUE)
       \/ Publish(t)
       \/ RecordPublication(t, TRUE)
       \/ RecordFailure(t, TRUE)
    /\ Follows(t)

\* The first run has returned: what it did is kept.
Remember(t) ==
    /\ pc[t] = "done"
    /\ ~twin.set
    /\ twin' = [set |-> TRUE, manual |-> t = "manual", effects |-> RunEffects(t)]
    /\ UNCHANGED <<pipeline_vars, sched_vars, api_vars, script, adapter_vars,
                   reg_vars, load_vars, late_vars>>

EquivInit ==
    /\ publishers \in {<<>>, <<"default_wordpress", "nextjs_site">>}
    /\ Fresh
    /\ stats_doc = ZeroStats
    /\ script \in Scripts(publishers)
    /\ twin = NoTwin
    /\ ApiIdle
    /\ AdapterIdle
    /\ RegIdle
    /\ LoadIdle
    /\ LateIdle
EquivNext ==
    \/ ScheduledRun
    \/ ManualRun
    \/ \E t \in Threads : RunStep(t) \/ Remember(t) \/ Finish(t)
EquivSpec == EquivInit /\ [][EquivNext]_vars


\* ------------------------------------------------------- publish_post
\* The four adapters' publish_post as functions of the remote condition.
Adapters == {"WordPressPublisher", "MediumPublisher", "NextJSAPIPublisher",
             "CustomWebsitePublisher"}
StatusCodes == {200, 201, 204, 301, 400, 401, 404, 429, 500}
Bodies == {"id", "no_id", "malformed"}
\* The XML-RPC answer of wp.newPost is the post's id or a fault; the three
\* REST adapters read a JSON body.
Conditions(adapter) ==
    {[kind |-> "timeout", status_code |-> 0, body |-> "none"],
     [kind |-> "connection_error", status_code |-> 0, body |-> "none"]}
    \cup {[kind |-> "response", status_code |-> c, body |-> b] :
             c \in StatusCodes,
             b \in IF adapter = "WordPressPublisher"
                   THEN Bodies \ {"no_id"} ELSE Bodies}

\* {'success': True, 'post_id': ..., ...}
Published(post_id) ==
    [returned |-> "dict", success |-> TRUE, post_id |-> post_id, error |-> ""]
\* {'success': False, 'error': ..., 'post_id': None}
Failed(error) ==
    [returned |-> "dict", success |-> FALSE, post_id |-> "None", error |-> error]
\* result_data.get('id'): None when the key is missing.
GetId(body) == IF body = "id" THEN "remote id" ELSE "None"
\* response.raise_for_status() raises HTTPError.
RaiseForStatusRaises(status_code) == status_code >= 400

\* WordPressPublisher.publish_post: any exception of the XML-RPC calls is
\* caught.
WordPressPublishPost(cond) ==
    IF cond.kind = "response" /\ cond.status_code = 200 /\ cond.body = "id"
    THEN Published("remote id")
    ELSE Failed("exception")

\* MediumPublisher.publish_post: raise_for_status, then
\* result_data['data']['id'] (KeyError when missing).
MediumPublishPost(cond) ==
    IF cond.kind # "response" \/ RaiseForStatusRaises(cond.status_code)
    THEN Failed("API Error")
    ELSE IF cond.body = "id" THEN Published("remote id") ELSE Failed("exception")

\* NextJSAPIPublisher.publish_post: 201, 400, 401 and 429 have a branch;
\* any other status goes to raise_for_status(), after which the method
\* ends without a return statement.
NextJSPublishPost(cond) ==
    CASE cond.kind = "timeout" -> Failed("Request timeout - API may be unavailable")
      [] cond.kind = "connection_error" ->
            Failed("Failed to connect to API - check URL and network")
      [] cond.status_code = 201 ->
            IF cond.body = "malformed" THEN Failed("Invalid API response format")
            ELSE Published(GetId(cond.body))
      [] cond.status_code = 400 ->
            IF cond.body = "malformed" THEN Failed("Invalid API response format")
            ELSE Failed("Validation Error")
      [] cond.status_code = 401 -> Failed("Session authentication failed")
      [] cond.status_code = 429 -> Failed("Rate limit exceeded")
      [] OTHER ->
            IF RaiseForStatusRaises(cond.status_code) THEN Failed("API Request Error")
            ELSE [NoResult EXCEPT !.returned = "None"]

\* CustomWebsitePublisher.publish_post: raise_for_status, then
\* result_data.get('id').
CustomPublishPost(cond) ==
    IF cond.kind # "response" \/ RaiseForStatusRaises(cond.status_code)
    THEN Failed("API Error")
    ELSE IF cond.body = "malformed" THEN Failed("exception")
         ELSE Published(GetId(cond.body))

PublishPost(adapter, cond) ==
    CASE adapter = "WordPressPublisher" -> WordPressPublishPost(cond)
      [] adapter = "MediumPublisher" -> MediumPublishPost(cond)
      [] adapter = "NextJSAPIPublisher" -> NextJSPublishPost(cond)
      [] OTHER -> CustomPublishPost(cond)

\* One publish_post call.
PublishPostCall ==
    /\ attempt.adapter = "none"
    /\ \E adapter \in Adapters :
       \E cond \in Conditions(adapter) :
          attempt' = [adapter |-> adapter, cond |-> cond,
                      result |-> PublishPost(adapter, cond)]
    /\ UNCHANGED <<pipeline_vars, sched_vars, api_vars, equiv_vars, reg_vars,
                   load_vars, late_vars>>

AdapterInit == publishers = <<>> /\ Constructed
AdapterNext == PublishPostCall
AdapterSpec == AdapterInit /\ [][AdapterNext]_vars


\* ------------------------------------------- PublisherManager.add_*
\* The five add_*_publisher methods: self.publishers[name] = Publisher(...)
\* inside try/except.
\* WordPressPublisher and MediumPublisher call the remote end in __init__
\* and raise when it fails; NextJSAPIPublisher swallows a failed health
\* check and CustomWebsitePublisher makes no call.
ConstructorOutcomes(adapter) ==
    IF adapter \in {"WordPressPublisher", "MediumPublisher"}
    THEN BOOLEAN ELSE {TRUE}

\* self.publishers[platform_name], as publish_to_all looks it up.
Lookup(name) == instances[name]

\* add_*_publisher never replacing a registered name (dict.setdefault).
AddPublisherKeepFirst(name, adapter, ok) ==
    /\ reg_call.made < MaxInstances
    /\ IF ok /\ name \notin Range(publishers)
       THEN /\ instances' = DictPut(instances, name,
                                       [cls |-> adapter, id |-> reg_call.made + 1])
            /\ publishers' = Append(publishers, name)
       ELSE UNCHANGED <<instances, publishers>>
    /\ reg_call' = [op |-> "add", name |-> name, adapter |-> adapter,
                    was_registered |-> name \in Range(publishers),
                    names_before |-> Len(publishers), constructed |-> ok,
                    made |-> reg_call.made + 1, raised |-> FALSE]
    /\ UNCHANGED <<stats, stats_doc, blog_posts, pc, local, report, trace, pre,
                   reached, incs, pub, sched_vars, api_vars, equiv_vars,
                   adapter_vars, load_vars, late_vars>>

\* add_*_publisher dropping the name before it constructs the publisher.
AddPublisherClearFirst(name, adapter, ok) ==
    /\ reg_call.made < MaxInstances
    /\ IF ok
       THEN /\ instances' = DictPut(instances, name,
                                       [cls |-> adapter, id |-> reg_call.made + 1])
            /\ publishers' = IF name \in Range(publishers)
                             THEN publishers ELSE Append(publishers, name)
       ELSE /\ instances' = [n \in (DOMAIN instances) \ {name} |-> instances[n]]
            /\ publishers' = SelectSeq(publishers, LAMBDA n : n # name)
    /\ reg_call' = [op |-> "add", name |-> name, adapter |-> adapter,
                    was_registered |-> name \in Range(publishers),
                    names_before |-> Len(publishers), constructed |-> ok,
                    made |-> reg_call.made + 1, raised |-> FALSE]
    /\ UNCHANGED <<stats, stats_doc, blog_posts, pc, local, report, trace, pre,
                   reached, incs, pub, sched_vars, api_vars, equiv_vars,
                   adapter_vars, load_vars, late_vars>>

\* add_*_publisher(name, ...): the constructor raising is logged and the
\* dict left as it was; else the instance is stored under name, a new key
\* going to the end of the dict and an old one keeping its place.
AddPublisher(name, adapter, ok) ==
    /\ reg_call.made < MaxInstances
    /\ IF ok
       THEN /\ instances' = DictPut(instances, name,
                                       [cls |-> adapter, id |-> reg_call.made + 1])
            /\ publishers' = IF name \in Range(publishers)
                             THEN publishers ELSE Append(publishers, name)
       ELSE UNCHANGED <<instances, publishers>>
    /\ reg_call' = [op |-> "add", name |-> name, adapter |-> adapter,
                    was_registered |-> name \in Range(publishers),
                    names_before |-> Len(publishers), constructed |-> ok,
                    made |-> reg_call.made + 1, raised |-> FALSE]
    /\ UNCHANGED <<stats, stats_doc, blog_posts, pc, local, report, trace, pre,
                   reached, incs, pub, sched_vars, api_vars, equiv_vars,
                   adapter_vars, load_vars, late_vars>>

RegInit == publishers = <<>> /\ Constructed
RegNext ==
    \E name \in Registrable, adapter \in Adapters :
       \E ok \in ConstructorOutcomes(adapter) : AddPublisher(name, adapter, ok)
RegSpec == RegInit /\ [][RegNext]_vars


\* --------------------------------------------------- _load_statistics
\* What _load_statistics meets: the database not connected (get_collection
\* raises), find_one raising because the server is unreachable or the
\* stored document cannot be decoded, no document, a document without a
\* 'stats' field, one whose 'stats' is a string or a number (dict.update
\* raises before it sets a key), or the document _save_statistics wrote.
Stores == {"not_connected", "unreachable", "unreadable", "absent",
           "no_stats_field", "not_a_mapping", "present"}
\* Stores from which no statistics can be read.
Unloadable == Stores \ {"present"}
\* Documents _save_statistics can have written.
StoredStats ==
    [total_generated : 0..1, total_published : 0..1, failed_generations : 0..1,
     failed_publications : 0..1, last_generation : {0, Now},
     last_publication : {0, Now}]

\* _load_statistics without its try/except.
LoadStatisticsUnguarded(s, store, doc) ==
    CASE store \in {"not_connected", "unreachable", "unreadable", "not_a_mapping"} ->
            [raised |-> TRUE, stats |-> s]
      [] store = "present" -> [raised |-> FALSE, stats |-> doc]
      [] OTHER -> [raised |-> FALSE, stats |-> s]

\* _load_statistics (lines 59-76): self.stats.update(stats_doc.get('stats',
\* {})) when a document is found; any exception is logged as a warning.
LoadStatistics(s, store, doc) ==
    CASE store \in {"not_connected", "unreachable", "unreadable", "not_a_mapping"} ->
            [raised |-> FALSE, stats |-> s]
      [] store = "present" -> [raised |-> FALSE, stats |-> doc]
      [] OTHER -> [raised |-> FALSE, stats |-> s]

\* BlogScheduler.__init__ from line 53 on: _load_statistics, then
\* _setup_default_publishers with no publisher named by the settings.
ConstructScheduler ==
    /\ boot.outcome = "none"
    /\ LET r == LoadStatistics(stats, boot.store, stats_doc)
       IN /\ stats' = r.stats
          /\ boot' = [boot EXCEPT !.outcome = IF r.raised THEN "raised"
                                             ELSE "constructed"]
    /\ UNCHANGED <<publishers, stats_doc, blog_posts, pc, local, report, trace,
                   pre, reached, incs, pub, sched_vars, api_vars, equiv_vars,
                   adapter_vars, reg_vars, late_vars>>

\* __init__ at line 52: the attributes assigned, the statistics not loaded.
LoadInit ==
    /\ publishers = <<>>
    /\ Fresh
    /\ boot \in [store : Stores, outcome : {"none"}]
    /\ stats_doc \in IF boot.store = "absent" THEN {ZeroStats} ELSE StoredStats
    /\ ApiIdle
    /\ EquivIdle
    /\ AdapterIdle
    /\ RegIdle
    /\ LateIdle
LoadNext == ConstructScheduler
LoadSpec == LoadInit /\ [][LoadNext]_vars


\* ------------------------------------------------------------ restart
\* The process ends and a new one constructs a BlogScheduler on the same
\* store.  stop() joins the loop thread for five seconds at most and the
\* thread is a daemon (lines 531, 545), so the process can end wherever a
\* job body is.  The new scheduler starts from the zero defaults (lines
\* 44-51) and _load_statistics reads back the document _save_statistics
\* wrote last.
MaxRestarts == 1

Restart ==
    /\ process.restarts < MaxRestarts
    /\ LET r == LoadStatistics(ZeroStats, "present", stats_doc)
       IN /\ stats' = r.stats
          /\ process' = [restarts |-> process.restarts + 1, before |-> stats,
                         saved |-> stats_doc, after |-> r.stats]
          /\ incs' = [c \in Counters \cup {"unsaved"} |->
                         IF c = "unsaved" THEN 0 ELSE r.stats[c]]
    /\ pc' = [t \in Threads |-> "idle"]
    /\ local' = [t \in Threads |-> NoLocal]
    /\ report' = [t \in Threads |-> NoReport]
    /\ trace' = [t \in Threads |-> <<>>]
    /\ pre' = [t \in Threads |-> NoPre]
    /\ UNCHANGED <<publishers, stats_doc, blog_posts, reached, pub, sched_vars,
                   api_vars, equiv_vars, adapter_vars, reg_vars, load_vars,
                   record_vars, topic_vars>>

\* One job at a time, every write of the statistics succeeding, and a
\* restart at any moment.
RestartInit == Init
RestartNext ==
    \/ \E t \in Threads : (OthersIdle(t) /\ Start(t, FALSE)) \/ Body(t, FALSE)
    \/ Restart
RestartSpec == RestartInit /\ [][RestartNext]_vars


\* -------------------------------------------------------- blog records
\* blog_automation_app: the demo_blog_posts list and the two endpoints that
\* create and delete a record.  A record is kept as its id.
\* generate_sample_posts (called at import) fills the list with ids 1..10.
NumSamplePosts == 10
MaxPosts == 2
MaxDeletes == 2
PostIds == 1..(NumSamplePosts + MaxPosts)

\* generate_blog_post: without a topic an error is returned; otherwise the
\* new record gets id len(demo_blog_posts) + 1 and is appended.
GenerateBlogPost ==
    /\ post_call.created < MaxPosts
    /\ \E has_topic \in BOOLEAN :
          IF has_topic
          THEN /\ demo_blog_posts' = Append(demo_blog_posts, Len(demo_blog_posts) + 1)
               /\ post_call' = [post_call EXCEPT !.op = "generate",
                                                 !.post_id = Len(demo_blog_posts) + 1,
                                                 !.created = @ + 1]
          ELSE /\ demo_blog_posts' = demo_blog_posts
               /\ post_call' = [post_call EXCEPT !.op = "no_topic", !.post_id = 0]
    /\ UNCHANGED <<pipeline_vars, sched_vars, api_vars, equiv_vars, adapter_vars,
                   reg_vars, load_vars, restart_vars, topic_vars>>

\* delete_blog_post: every record with the given id is filtered out.
DeleteBlogPost(post_id) ==
    /\ Cardinality(post_call.deleted) < MaxDeletes
    /\ demo_blog_posts' = SelectSeq(demo_blog_posts, LAMBDA p : p # post_id)
    /\ post_call' = [post_call EXCEPT !.op = "delete", !.post_id = post_id,
                                      !.deleted = IF post_id \in Range(demo_blog_posts)
                                                  THEN @ \cup {post_id} ELSE @]
    /\ UNCHANGED <<pipeline_vars, sched_vars, api_vars, equiv_vars, adapter_vars,
                   reg_vars, load_vars, restart_vars, topic_vars>>

RecordInit ==
    /\ publishers = <<>>
    /\ Fresh
    /\ stats_doc = ZeroStats
    /\ ApiIdle /\ EquivIdle /\ AdapterIdle /\ RegIdle /\ LoadIdle
    /\ RestartIdle /\ TopicIdle
    /\ demo_blog_posts = [i \in 1..NumSamplePosts |-> i]
    /\ post_call = NoPostCall
RecordNext == GenerateBlogPost \/ \E post_id \in PostIds : DeleteBlogPost(post_id)
RecordSpec == RecordInit /\ [][RecordNext]_vars


\* ------------------------------------------------------- _select_topic
\* The topic a run of _generate_and_publish_blog uses (line 238).  A topic
\* pool is a list of topics; None and [] are both the empty pool.
Topics == {"ai", "rust"}
MaxTopics == 2
MaxSelections == 2
Pools == SeqsUpTo(Topics, MaxTopics)
DefaultTopics == <<"artificial intelligence", "technology trends",
                   "programming", "web development">>

\* _select_topic drawing from the defaults whatever the pool holds.
SelectTopicFromDefaults(topics) == Range(topics) \cup Range(DefaultTopics)

\* _select_topic(topics): what random.choice can return.
SelectTopic(topics) ==
    Range(IF topics = <<>> THEN DefaultTopics ELSE topics)

\* A run of daily_blog_job, registered with the pool `topics`.
DailyJobSelectsTopic ==
    /\ Len(selection) < MaxSelections
    /\ \E topics \in Pools : \E topic \in SelectTopic(topics) :
          selection' = Append(selection, [kind |-> "daily", requested |-> "",
                                          pool |-> topics, topic |-> topic])
    /\ UNCHANGED <<pipeline_vars, sched_vars, api_vars, equiv_vars, adapter_vars,
                   reg_vars, load_vars, restart_vars, record_vars>>

\* manual_blog_generation(topic): topics=[topic].
ManualSelectsTopic ==
    /\ Len(selection) < MaxSelections
    /\ \E t \in Topics \cup {""} : \E topic \in SelectTopic(<<t>>) :
          selection' = Append(selection, [kind |-> "manual", requested |-> t,
                                          pool |-> <<t>>, topic |-> topic])
    /\ UNCHANGED <<pipeline_vars, sched_vars, api_vars, equiv_vars, adapter_vars,
                   reg_vars, load_vars, restart_vars, record_vars>>

TopicInit == publishers = <<>> /\ Constructed
TopicNext == DailyJobSelectsTopic \/ ManualSelectsTopic
TopicSpec == TopicInit /\ [][TopicNext]_vars


\* ------------------------------------------------------------- claims
AllIdle == \A t \in Threads : pc[t] = "idle"
SingleKinds == {"daily", "manual", "curation"}
\* publish_to_all ran: called directly, or by _publish_blog with a
\* non-empty registry.
PublishToAllRan ==
    \/ pub.op = "publish_to_all"
    \/ pub.op = "_publish_blog" /\ publishers # <<>>
Registered(n) == n \in Range(publishers)
AnyPlatformSucceeded ==
    \E n \in DOMAIN pub.results : ~pub.results[n].isNone /\ pub.results[n].success

\* C1: with a non-empty registry, the aggregate 'success' _publish_blog
\* returns is true iff at least one attempted platform's result has
\* success = true, whatever each adapter did (success, failure, raising,
\* returning no result).
C1_AggregateIffAnySuccess ==
    (pub.op = "_publish_blog" /\ publishers # <<>>)
        => (pub.pr.success <=> AnyPlatformSucceeded)

\* C2: in publish_to_all every target name has an entry in the result map
\* and every registered target name is attempted, in order, whichever
\* adapters raised or returned a failure before it.
C2_EveryTargetAttempted ==
    PublishToAllRan =>
        /\ DOMAIN pub.results = Range(pub.target)
        /\ pub.calls = SelectSeq(pub.target, Registered)

\* C2 witness: the first target's adapter raised and a different, registered
\* target after it was still attempted.
C2_Witness ==
    /\ PublishToAllRan
    /\ Len(pub.target) >= 2
    /\ pub.target[1] # pub.target[2]
    /\ pub.results[pub.target[1]].error = "exception"
    /\ Len(pub.calls) = 2
    /\ pub.calls[2] = pub.target[2]

\* C3: a target name absent from the registry gets a result with
\* success = false and the 'not configured' error, no publisher is invoked
\* for it, and the registered names of the same call are attempted.
C3_UnknownPlatformNotConfigured ==
    /\ \A i \in DOMAIN pub.calls : Registered(pub.calls[i])
    /\ PublishToAllRan =>
          \A i \in DOMAIN pub.target :
             IF Registered(pub.target[i])
             THEN /\ \E j \in DOMAIN pub.calls : pub.calls[j] = pub.target[i]
                  /\ pub.results[pub.target[i]].error # "Publisher not configured"
             ELSE /\ pub.target[i] \in DOMAIN pub.results
                  /\ pub.results[pub.target[i]] =
                        [isNone |-> FALSE, success |-> FALSE,
                         error |-> "Publisher not configured"]

\* C3 witness: a call naming an unregistered and a registered platform, the
\* registered one published successfully.
C3_Witness ==
    /\ PublishToAllRan
    /\ \E i, j \in DOMAIN pub.target :
          /\ ~Registered(pub.target[i])
          /\ Registered(pub.target[j])
          /\ pub.results[pub.target[j]].success
          /\ pub.results[pub.target[i]].error = "Publisher not configured"

\* C4: after a run that published its record to the configured platforms
\* with k successes, the stored record's status is 'published' iff k >= 1
\* (an aggregate success means k >= 1).
C4_StatusPublishedIffSuccess ==
    \A t \in Threads :
        (/\ pc[t] = "done"
         /\ local[t].job.kind \in SingleKinds
         /\ local[t].publish_result.called
         /\ publishers # <<>>)
        => (blog_posts[local[t].blog_data.id].status = "published"
               <=> local[t].publish_result.success)

GeneratorFailed(t) ==
    /\ pc[t] = "done"
    /\ local[t].job.kind \in SingleKinds
    /\ local[t].blog_data = NoBlog

\* C6: a run whose generator fails adds exactly 1 to failed_generations,
\* leaves the other counters unchanged, persists no record, makes no
\* publish attempt and returns a report with generation_success = false.
C6_GeneratorFailureRecorded ==
    \A t \in Threads :
        GeneratorFailed(t) =>
            /\ stats.failed_generations = pre[t].stats.failed_generations + 1
            /\ stats.total_generated = pre[t].stats.total_generated
            /\ stats.total_published = pre[t].stats.total_published
            /\ stats.failed_publications = pre[t].stats.failed_publications
            /\ Len(blog_posts) = pre[t].posts
            /\ \A i \in DOMAIN trace[t] : trace[t][i].ev = "generate"
            /\ report[t].kind = local[t].job.kind
            /\ ~report[t].generation_success

\* C6 witness: a run whose generator failed has returned, after an earlier
\* run had generated.
C6_Witness ==
    \E t \in Threads : GeneratorFailed(t) /\ pre[t].stats.total_generated > 0

\* C7: when no job is running, total_generated + failed_generations is the
\* number of job-body invocations that reached the generation step.
C7_GeneratedPlusFailedIsReached ==
    AllIdle => stats.total_generated + stats.failed_generations = reached

\* C8: when the jobs of both contexts have finished, every counter equals
\* the number of increments performed on it.
C8_NoLostUpdate ==
    AllIdle => \A c \in Counters : stats[c] = incs[c]

\* A manual trigger with publish_immediately = False has returned and its
\* generator call had succeeded.
ManualDraftGenerated(t) ==
    /\ pc[t] = "done"
    /\ local[t].job.kind = "manual"
    /\ ~local[t].job.publish_immediately
    /\ local[t].blog_data # NoBlog

\* The run of t inserted its record.
Inserted(t) == \E i \in DOMAIN trace[t] : trace[t][i].ev = "persist"

DraftPersistedAndCounted(t) ==
    /\ Len(blog_posts) = pre[t].posts + 1
    /\ blog_posts[Len(blog_posts)].status = "draft"
    /\ stats.total_generated = pre[t].stats.total_generated + 1
    /\ stats.total_published = pre[t].stats.total_published

C10_NoPublishNoFailedPublication ==
    \A t \in Threads :
        (/\ pc[t] = "done"
         /\ local[t].job.kind \in SingleKinds
         /\ ~local[t].job.publish_immediately)
        => stats.failed_publications = pre[t].stats.failed_publications

\* Publish attempts (_publish_blog calls) of the run of t.
PublishAttempts(t) ==
    Cardinality({i \in DOMAIN trace[t] : trace[t][i].ev = "publish"})

\* C11: a job body that has made publish attempts has added, over
\* total_published and failed_publications together, 1 per attempt, and if
\* it has incremented total_published then last_publication is set.
C11_PublishCountedAndTimestamped ==
    \A t \in Threads :
        (pc[t] = "done" /\ PublishAttempts(t) > 0) =>
            /\ (stats.total_published - pre[t].stats.total_published)
                  + (stats.failed_publications - pre[t].stats.failed_publications)
               = PublishAttempts(t)
            /\ stats.total_published > pre[t].stats.total_published
                  => stats.last_publication # 0

\* C12: after a run with publish_immediately = True, the stored record
\* holds the publish result of the run, whatever the outcome.
C12_PublishResultsStored ==
    \A t \in Threads :
        (/\ pc[t] = "done"
         /\ local[t].job.kind \in SingleKinds
         /\ local[t].publish_result.called)
        => blog_posts[local[t].blog_data.id].publish_result
              = local[t].publish_result

\* A generation, persistence or publish step of the run of t is about to
\* begin.
StepBegins(t) ==
    \/ pc[t] \in {"generate", "s_generate", "save_blog", "s_save_blog"}
    \/ pc[t] \in {"publish", "s_publish"} /\ local[t].job.publish_immediately

\* C13: when a generation, persistence or publish step begins,
\* _save_statistics has been called since the last counter mutation.
C13_WriteThrough ==
    \A t \in Threads : StepBegins(t) => incs.unsaved = 0

\* C14: a job function that raises does not end the loop thread running
\* it: no loop thread is ever ended by an exception of a job.
C14_LoopSurvivesJobException ==
    \A l \in LoopIds : loops[l].state # "crashed"

\* C15: no job is entered while an earlier run of the same job is still
\* executing.
C15_SingleFlight ==
    \A l1, l2 \in LoopIds :
        (/\ l1 # l2
         /\ loops[l1].state = "in_job"
         /\ loops[l2].state = "in_job")
        => loops[l1].job # loops[l2].job

\* A loop thread is in a tick that began after the last start().
InCurrentTick(l) == loops[l].state \in {"run_pending", "in_job"} /\ ~loops[l].stale

\* C16: at most one loop thread executes ticks: a thread left behind by a
\* stop() may finish the tick it was in when the next thread was created,
\* but two threads are never both in ticks begun since.
C16_OneLoopTicks ==
    Cardinality({l \in LoopIds : InCurrentTick(l)}) <= 1

\* C17: when stop() has returned, no job is registered.
C17_StopClearsJobs ==
    caller.last.op = "stop" => jobs = {}

C20_MalformedCadenceRejected ==
    caller.last.malformed =>
        /\ caller.last.outcome \in {"false", "raised"}
        /\ ~caller.last.registered

\* Two deletions of one schedule id in a row, the first of which found it.
DeletedTwice ==
    /\ Len(api_calls) = 2
    /\ api_calls[1].op = "delete"
    /\ api_calls[2].op = "delete"
    /\ api_calls[1].schedule_id = api_calls[2].schedule_id
    /\ api_calls[1].response.error = ""

\* C21: deleting the same schedule a second time is answered without an
\* error, and leaves the schedules as the first deletion left them.
C21_RemoveIdempotent ==
    DeletedTwice =>
        /\ api_calls[2].response.error = ""
        /\ blog_schedules = api_calls[2].before

SeriesKinds == {"weekly_series", "manual_series"}
\* A series run has returned.
SeriesReturned(t) == pc[t] = "done" /\ local[t].job.kind \in SeriesKinds

\* C22: a series run of N posts returns N per-post reports, numbered 1..N
\* in order, whichever posts failed.
C22_SeriesReportsEveryPost ==
    \A t \in Threads :
        SeriesReturned(t) =>
            /\ Len(report[t].results) = local[t].job.num_posts
            /\ \A i \in DOMAIN report[t].results :
                  report[t].results[i].post_number = i

\* C23: a series run in which the generator raised for one post returns
\* exactly one report with generation_success false, has incremented
\* failed_generations by 1 and total_generated once per other post.
C23_OneGeneratorFailureCounted ==
    \A t \in Threads :
        (SeriesReturned(t) /\ ~report[t].series_success) =>
            /\ Cardinality({i \in DOMAIN report[t].results :
                               ~report[t].results[i].generation_success}) = 1
            /\ stats.failed_generations = pre[t].stats.failed_generations + 1
            /\ stats.total_generated =
                  pre[t].stats.total_generated + local[t].job.num_posts - 1

\* C24: in a series run no post is generated before the posts ahead of it
\* have been persisted and published: every persist or publish event of a
\* post comes before the generate event of any later post.
C24_SeriesPostByPost ==
    \A t \in Threads :
        local[t].job.kind \in SeriesKinds =>
            \A i, j \in DOMAIN trace[t] :
                (/\ i < j
                 /\ trace[t][i].ev = "generate"
                 /\ trace[t][j].ev \in {"persist", "publish"})
                => trace[t][i].post <= trace[t][j].post

\* A run has returned while the other kind of run, given the same
\* parameters and responses, is the one kept.
TwinOf(t) == pc[t] = "done" /\ twin.set /\ (twin.manual <=> t # "manual")

C26_RemoteIdXorError ==
    attempt.adapter # "none" =>
        /\ (attempt.result.post_id # "None") # (attempt.result.error # "")
        /\ attempt.result.success <=> attempt.result.post_id # "None"

\* C27: every publish_post call returns a dict with a boolean success
\* field: it neither returns None nor raises.
C27_PublishPostTotal ==
    attempt.adapter # "none" => attempt.result.returned = "dict"

\* C28: one publish_to_all call makes at most one publish_post call per
\* platform, whatever the target list.
C28_AtMostOneAttemptPerPlatform ==
    PublishToAllRan => NoDup(pub.calls)

\* An add_*_publisher call under a name that was registered has returned.
ReRegistered == reg_call.op = "add" /\ reg_call.was_registered

\* C29 as stated: after an add_*_publisher call under a registered name,
\* the name holds the instance the call constructed and the number of
\* names is unchanged.
C29_ReRegisterAsStated ==
    ReRegistered =>
        /\ Lookup(reg_call.name).id = reg_call.made
        /\ Len(publishers) = reg_call.names_before

\* C29: after an add_*_publisher call under a registered name whose
\* publisher was constructed, the name holds the new instance and the
\* number of names is unchanged; a call whose constructor raised leaves the
\* name with the instance it had.
C29_ReRegisterReplaces ==
    ReRegistered =>
        /\ reg_call.constructed =>
              Lookup(reg_call.name) = [cls |-> reg_call.adapter, id |-> reg_call.made]
        /\ ~reg_call.constructed => Lookup(reg_call.name).id < reg_call.made
        /\ Len(publishers) = reg_call.names_before

\* C29 witness: a registered name has been given a second instance.
C29_Witness ==
    /\ ReRegistered
    /\ reg_call.constructed
    /\ reg_call.made > 1
    /\ Cardinality(DOMAIN instances) = Len(publishers)

\* C30: with no stored statistics, an unreachable store or unreadable
\* stored data, the construction of BlogScheduler completes, with every
\* counter 0 and both timestamps None.
C30_LoadNeverFails ==
    (boot.outcome # "none" /\ boot.store \in Unloadable) =>
        /\ boot.outcome = "constructed"
        /\ stats = ZeroStats

\* C30 witness: saved non-zero statistics were there and could not be read.
C30_Witness ==
    /\ boot.outcome # "none"
    /\ boot.store \in {"unreachable", "unreadable"}
    /\ stats_doc # ZeroStats

\* C31: a failing _save_statistics is not propagated.  A single-post run
\* that inserted its record returns generation_success = true with
\* total_generated one higher and failed_generations unchanged, whether or
\* not its writes of the statistics succeeded; and every in-memory counter
\* is the number of increments performed on it, whatever the durable copy
\* holds, so later runs count on from the in-memory values.
C31_SaveFailureNotPropagated ==
    /\ \A c \in Counters : stats[c] = incs[c]
    /\ \A t \in Threads :
          (pc[t] = "done" /\ local[t].job.kind \in SingleKinds /\ Inserted(t)) =>
              /\ report[t].generation_success
              /\ report[t].publish_success = local[t].publish_result.success
              /\ stats.total_generated = pre[t].stats.total_generated + 1
              /\ stats.failed_generations = pre[t].stats.failed_generations

\* C31 witness: a run has returned generation_success = true, no write of
\* the statistics has succeeded so far, and the run counted on from a
\* total_generated an earlier run left in memory only.
C31_Witness ==
    \E t \in Threads :
        /\ pc[t] = "done"
        /\ local[t].job.kind \in SingleKinds
        /\ Inserted(t)
        /\ report[t].generation_success
        /\ stats_doc = ZeroStats
        /\ pre[t].stats.total_generated = 1
        /\ stats.total_generated = 2

\* Save followed by load is the identity: the scheduler constructed by a
\* restart starts with the counters and timestamps of the durable copy.
SaveThenLoadIsIdentity ==
    process.restarts > 0 => process.after = process.saved

\* C32: when every write of the statistics succeeded, a scheduler
\* constructed by a restart starts with every counter and timestamp equal
\* to the saved values, and no counter is lower than it was in memory
\* before the restart.
C32_StatsSurviveRestart ==
    process.restarts > 0 =>
        /\ process.after = process.saved
        /\ \A c \in Counters : process.after[c] >= process.before[c]

\* C33: no step of any interleaving of scheduled, manual and series runs
\* lowers total_generated, total_published, failed_generations or
\* failed_publications.
C33_CountersNonDecreasing ==
    [][\A c \in Counters : stats'[c] >= stats[c]]_vars

\* C34: after any sequence of record creations and deletions no two stored
\* records share an id, and a created record never gets the id of a
\* record deleted before.
C34_RecordIdsDistinct ==
    /\ NoDup(demo_blog_posts)
    /\ post_call.op = "generate" => post_call.post_id \notin post_call.deleted

\* The next occurrence of the weekday (Monday is 0) at the time of day
\* that is later than now.
NextOccurrence(weekday, time, now) ==
    LET at == Replace(now, time[1], time[2])
                 + ((weekday - Weekday(now)) % 7) * Day
    IN IF at > now THEN at ELSE at + 7 * Day

\* C35: for a weekly job the next run is the next occurrence of the
\* configured weekday (Monday, the day calculate_next_run aims at) at the
\* configured time that lies in the future: on a Monday before that time
\* it is the same day.
C35_WeeklyNextOccurrence ==
    (next_run.called /\ next_run.frequency = "weekly") =>
        next_run.result = NextOccurrence(0, next_run.time, next_run.now)

\* C36: the topic a job run uses is a member of the job's topic pool when
\* the pool is non-empty and a member of the fixed default pool when it is
\* empty; the topic of a manual trigger with topic t is t.
C36_TopicFromPool ==
    \A i \in DOMAIN selection :
        LET c == selection[i]
        IN /\ c.pool # <<>> => c.topic \in Range(c.pool)
           /\ c.pool = <<>> => c.topic \in Range(DefaultTopics)
           /\ c.kind = "manual" => c.topic = c.requested

\* C36 witness: a job run with an empty pool used a default topic, and a
\* run with a pool of two topics used its second one.
C36_Witness ==
    /\ Len(selection) = 2
    /\ selection[1].pool = <<>>
    /\ selection[1].topic = "programming"
    /\ selection[2].pool = <<"ai", "rust">>
    /\ selection[2].topic = "rust"

\* C37: in every reachable state is_running = True implies that the loop
\* thread start() created is alive; in particular not after a job function
\* raised inside the loop.
C37_RunningImpliesLiveLoop ==
    is_running => (scheduler_thread # 0 /\ Alive(scheduler_thread))

\* The generator returned a record in the run of t that has just returned,
\* and inserting the record raised.
PersistFailed(t) ==
    /\ pc[t] = "done"
    /\ local[t].job.kind \in SingleKinds
    /\ local[t].blog_data # NoBlog
    /\ ~Inserted(t)

C39_EmptyListMeansAll ==
    /\ (PublishToAllRan /\ pub.platforms.list = <<>>) =>
          /\ pub.target = publishers
          /\ pub.calls = publishers
          /\ DOMAIN pub.results = Range(publishers)
    /\ (PublishToAllRan /\ publishers # <<>>) =>
          /\ pub.target # <<>>
          /\ DOMAIN pub.results # {}

\* C39 witness: a call given the empty list, with two publishers
\* registered, has called both.
C39_Witness ==
    /\ PublishToAllRan
    /\ pub.platforms.given
    /\ pub.platforms.list = <<>>
    /\ Len(publishers) = 2
    /\ pub.calls = publishers

\* C40: an add_*_publisher call whose constructor raises does not raise
\* itself and leaves the registry as it was: the same names, each with the
\* instance it had.
C40_FailedRegistrationChangesNothing ==
    [][(reg_call'.made = reg_call.made + 1 /\ ~reg_call'.constructed) =>
          /\ ~reg_call'.raised
          /\ instances' = instances
          /\ publishers' = publishers]_vars

\* C40 witness: the constructor raised in a call under a registered name,
\* which still holds the instance an earlier call gave it.
C40_Witness ==
    /\ reg_call.op = "add"
    /\ ~reg_call.constructed
    /\ reg_call.was_registered
    /\ reg_call.name \in Range(publishers)
    /\ Lookup(reg_call.name).id > 0
    /\ Lookup(reg_call.name).id < reg_call.made

====
